---------------------------- MODULE Spec2Model ----------------------------
(***************************************************************************)
(* The to-do application of 01-todo/core: five class-based views over the  *)
(* single TodoItem table.  The table, the primary-key sequence and the     *)
(* clock are the shared state; every request is served by a worker that    *)
(* performs the view's store calls one at a time (the SELECT of            *)
(* get_object / get_object_or_404, then the UPDATE-or-INSERT of save() or  *)
(* the DELETE of delete()), so two requests may interleave between their   *)
(* store calls.  Text is a sequence of one-character strings.              *)
(*                                                                         *)
(* Assumption on the environment: every call of now() returns a value      *)
(* larger than all earlier ones, and is taken at the store call it stamps. *)
(***************************************************************************)
EXTENDS Integers, Sequences, FiniteSets, TLC

VARIABLES
    store,       \* the TodoItem table: a set of rows
    nextId,      \* the next value of the table's auto-increment primary key
    clock,       \* the last timestamp now() returned
    pc,          \* per worker: "idle", or the view whose object it has loaded
    obj,         \* per worker: the model instance the view holds in memory
    resp,        \* the last HTTP response sent
    lastToggle,  \* history: the run of successful toggles not separated by another request
    deleted      \* history: the ids a POST to delete has answered 302 for

vars == <<store, nextId, clock, pc, obj, resp, lastToggle, deleted>>

\* ------------------------------------------------------------- bounds

\* The largest primary key the sequence hands out.
MaxId == 2

\* The largest timestamp: the number of writes of a run.
MaxClock == 2

\* ------------------------------------------------------------ requests

Workers == {"w1", "w2"}

SerialWorkers == {"w1"}

\* The pk values of a URL: every key the sequence can hand out, and one it never does.
Pks == 1..(MaxId + 1)

\* A form-encoded POST body: the keys it carries and the value of each (the
\* value of a key it does not carry is never read).
Body(present, title, description, completed) ==
    [present |-> present, title |-> title, description |-> description,
     completed |-> completed]

\* The bodies a client posts: nothing, an empty title, a title of whitespace,
\* a description alone, and titles with and without a description and a
\* completed box, with whitespace around the text.
PostBodies ==
    { Body({}, <<>>, <<>>, ""),
      Body({"title"}, <<>>, <<>>, ""),
      Body({"title", "description", "completed"}, <<" ">>, <<" ", "d">>, "True"),
      Body({"description", "completed"}, <<>>, <<" ", "d">>, "True"),
      Body({"title"}, <<"a">>, <<>>, ""),
      Body({"title", "completed"}, <<"a">>, <<>>, "True"),
      Body({"title", "description", "completed"}, <<"a">>, <<" ", "d">>, "false"),
      Body({"title", "description"}, <<"b", " ">>, <<" ", "d">>, ""),
      Body({"title", "description", "completed"}, <<"b", " ">>, <<" ", "d">>, "True") }

\* django.views.View.http_method_names
HttpMethodNames ==
    {"get", "post", "put", "patch", "delete", "head", "options", "trace"}

\* The verbs a client sends: some of http_method_names and one other.
RequestMethods == {"get", "post", "head", "options", "propfind"}

\* --------------------------------------------------------------- model

\* description of an instance constructed without the field
Null == <<"NULL">>

\* TodoItem(): the field defaults of an unsaved instance
NewInstance ==
    [id |-> 0, title |-> <<>>, description |-> Null, completed |-> FALSE,
     created_at |-> 0, updated_at |-> 0]

Exists(table, pk) == \E r \in table : r.id = pk

Row(table, pk) == CHOOSE r \in table : r.id = pk

\* The timestamps a save writes: updated_at is the time of every save,
\* created_at the time of the save that adds the row.
PreSave(instance, add, now) ==
    [instance EXCEPT !.updated_at = now, !.created_at = IF add THEN now ELSE @]

\* Model.save(): an UPDATE of every column of the row with the instance's
\* key; when no row has that key, an INSERT of the instance.
Save(table, instance, now) ==
    IF Exists(table, instance.id)
    THEN (table \ {Row(table, instance.id)}) \cup {PreSave(instance, FALSE, now)}
    ELSE table \cup {PreSave(instance, TRUE, now)}

\* Model.delete(): DELETE ... WHERE id = pk; no row matching is no error.
Delete(table, instance) == {r \in table : r.id # instance.id}

\* ---------------------------------------------------------------- forms

IsSpace(c) == c = " "

RECURSIVE LStrip(_)
LStrip(s) ==
    IF s # <<>> /\ IsSpace(Head(s)) THEN LStrip(Tail(s)) ELSE s

RECURSIVE RStrip(_)
RStrip(s) ==
    IF s # <<>> /\ IsSpace(s[Len(s)]) THEN RStrip(SubSeq(s, 1, Len(s) - 1)) ELSE s

\* str.strip()
Strip(s) == LStrip(RStrip(s))

\* forms.CharField.clean of a text field: an absent key is the empty value,
\* a present one is stripped.
CleanText(body, name) ==
    IF name \notin body.present THEN <<>>
    ELSE IF name = "title" THEN Strip(body.title) ELSE Strip(body.description)

\* forms.BooleanField over a CheckboxInput: an absent key is False.
CleanCompleted(body) ==
    "completed" \in body.present /\ body.completed \notin {"false", "False"}

\* The fields of TodoItem a form requires a value for.
RequiredFields == {"title"}

\* form.is_valid() of the generated ModelForm: every required field of the
\* form has a value that is not empty once cleaned.
FormValid_NothingRequired(fields, body) == TRUE

FormValid(fields, body) ==
    \A name \in fields \cap RequiredFields : CleanText(body, name) # <<>>

\* construct_instance: the cleaned value of every field of the form is set
\* on the instance; the other attributes keep their values.
ConstructInstance(instance, fields, body) ==
    [instance EXCEPT
        !.title = IF "title" \in fields THEN CleanText(body, "title") ELSE @,
        !.description =
            IF "description" \in fields THEN CleanText(body, "description") ELSE @,
        !.completed = IF "completed" \in fields THEN CleanCompleted(body) ELSE @]

\* ---------------------------------------------------------------- views

\* HomeView.ordering = ['-created_at'] over TodoItem.objects.all()
RECURSIVE ListAll_Ascending(_)
ListAll_Ascending(table) ==
    IF table = {} THEN <<>>
    ELSE LET r == CHOOSE x \in table : \A y \in table : x.created_at <= y.created_at
         IN  <<r>> \o ListAll_Ascending(table \ {r})

RECURSIVE ListAll(_)
ListAll(table) ==
    IF table = {} THEN <<>>
    ELSE LET r == CHOOSE x \in table : \A y \in table : y.created_at <= x.created_at
         IN  <<r>> \o ListAll(table \ {r})

\* TodoCreateView.fields
CreateFields_WithCompleted == {"title", "description", "completed"}

CreateFields == {"title", "description"}

\* TodoUpdateView.fields
UpdateFields_NoCompleted == {"title", "description"}

UpdateFields == {"title", "description", "completed"}

\* The handlers TodoToggleView has: post, and the options View gives every view.
ToggleHandlers == {"post", "options"}

\* View.dispatch: the handler named after the verb, when the verb is one of
\* http_method_names and the view has it; else http_method_not_allowed.
Dispatch_GetAsPost(handlers, method) ==
    IF method = "get" THEN "post"
    ELSE IF method \in HttpMethodNames /\ method \in handlers THEN method
    ELSE "http_method_not_allowed"

Dispatch(handlers, method) ==
    IF method \in HttpMethodNames /\ method \in handlers THEN method
    ELSE "http_method_not_allowed"

\* todo.completed = not todo.completed
ToggleCompleted_SetTrue(instance) == [instance EXCEPT !.completed = TRUE]

ToggleCompleted(instance) == [instance EXCEPT !.completed = ~@]

\* get_object_or_404 / SingleObjectMixin.get_object: the row, or Http404.
Http404 == [NewInstance EXCEPT !.id = -1]

GetObject_OrBlank(table, pk) ==
    IF Exists(table, pk) THEN Row(table, pk) ELSE [NewInstance EXCEPT !.id = pk]

GetObject(table, pk) ==
    IF Exists(table, pk) THEN Row(table, pk) ELSE Http404

\* An HTTP response: the request it answers, its status, and of its context
\* the keys of the listed items and whether the form has errors.
Response(route, method, status) ==
    [route |-> route, method |-> method, status |-> status,
     todos |-> <<>>, errors |-> FALSE]

NoToggle == [pk |-> 0, was |-> FALSE, run |-> 0]

\* The item the tests' setUp creates directly, TodoItem.objects.create(title=...,
\* completed=...): no description, and the next key of the sequence taken.
Fixture(completed) ==
    [NewInstance EXCEPT !.id = 1, !.title = <<"a">>, !.completed = completed]

\* A fresh database, or one holding the fixture.
Init ==
    /\ store \in {{}} \cup {{Fixture(c)} : c \in BOOLEAN}
    /\ nextId = 1 + Cardinality(store)
    /\ clock = 0
    /\ pc = [w \in Workers |-> "idle"]
    /\ obj = [w \in Workers |-> NewInstance]
    /\ resp = Response("none", "none", 0)
    /\ lastToggle = NoToggle
    /\ deleted = {}

\* GET / : the list of every item, newest first.
HomeGet(w) ==
    /\ pc[w] = "idle"
    /\ resp' = [Response("home", "get", 200) EXCEPT !.todos = [i \in 1..Cardinality(store) |-> ListAll(store)[i].id]]
    /\ lastToggle' = NoToggle
    /\ UNCHANGED <<store, nextId, clock, pc, obj, deleted>>

\* GET /create/ : the empty form.
CreateGet(w) ==
    /\ pc[w] = "idle"
    /\ resp' = Response("create", "get", 200)
    /\ lastToggle' = NoToggle
    /\ UNCHANGED <<store, nextId, clock, pc, obj, deleted>>

\* POST /create/ : the form is validated; valid, the new instance is saved
\* (one INSERT) and the answer is the redirect; invalid, the form again.
CreatePost(w, body) ==
    /\ pc[w] = "idle"
    /\ lastToggle' = NoToggle
    /\ IF FormValid(CreateFields, body)
       THEN /\ nextId <= MaxId
            /\ clock < MaxClock
            /\ store' = Save(store,
                   [ConstructInstance(NewInstance, CreateFields, body)
                        EXCEPT !.id = nextId],
                   clock + 1)
            /\ nextId' = nextId + 1
            /\ clock' = clock + 1
            /\ resp' = Response("create", "post", 302)
       ELSE /\ resp' = [Response("create", "post", 200) EXCEPT !.errors = TRUE]
            /\ UNCHANGED <<store, nextId, clock>>
    /\ UNCHANGED <<pc, obj, deleted>>

\* GET /<pk>/edit/ : the form of the item, or 404.
EditGet(w, pk) ==
    /\ pc[w] = "idle"
    /\ resp' = Response("edit", "get", IF GetObject(store, pk) = Http404 THEN 404 ELSE 200)
    /\ lastToggle' = NoToggle
    /\ UNCHANGED <<store, nextId, clock, pc, obj, deleted>>

\* POST /<pk>/edit/, first store call: get_object, or 404.
EditPostLoad(w, pk) ==
    /\ pc[w] = "idle"
    /\ lastToggle' = NoToggle
    /\ IF GetObject(store, pk) = Http404
       THEN /\ resp' = Response("edit", "post", 404)
            /\ UNCHANGED <<pc, obj>>
       ELSE /\ pc' = [pc EXCEPT ![w] = "edit"]
            /\ obj' = [obj EXCEPT ![w] = GetObject(store, pk)]
            /\ UNCHANGED resp
    /\ UNCHANGED <<store, nextId, clock, deleted>>

\* POST /<pk>/edit/, after get_object: the form is validated; valid, the
\* instance with the cleaned values is saved and the answer is the redirect.
EditPostSave(w, body) ==
    /\ pc[w] = "edit"
    /\ lastToggle' = NoToggle
    /\ IF FormValid(UpdateFields, body)
       THEN /\ clock < MaxClock
            /\ store' = Save(store, ConstructInstance(obj[w], UpdateFields, body),
                             clock + 1)
            /\ clock' = clock + 1
            /\ resp' = Response("edit", "post", 302)
       ELSE /\ resp' = [Response("edit", "post", 200)
                            EXCEPT !.errors = TRUE]
            /\ UNCHANGED <<store, clock>>
    /\ pc' = [pc EXCEPT ![w] = "idle"]
    /\ obj' = [obj EXCEPT ![w] = NewInstance]
    /\ UNCHANGED <<nextId, deleted>>

\* GET /<pk>/delete/ : the confirmation page, or 404.
DeleteGet(w, pk) ==
    /\ pc[w] = "idle"
    /\ resp' = Response("delete", "get", IF GetObject(store, pk) = Http404 THEN 404 ELSE 200)
    /\ lastToggle' = NoToggle
    /\ UNCHANGED <<store, nextId, clock, pc, obj, deleted>>

\* POST /<pk>/delete/, first store call: get_object, or 404.
DeletePostLoad(w, pk) ==
    /\ pc[w] = "idle"
    /\ lastToggle' = NoToggle
    /\ IF GetObject(store, pk) = Http404
       THEN /\ resp' = Response("delete", "post", 404)
            /\ UNCHANGED <<pc, obj>>
       ELSE /\ pc' = [pc EXCEPT ![w] = "delete"]
            /\ obj' = [obj EXCEPT ![w] = GetObject(store, pk)]
            /\ UNCHANGED resp
    /\ UNCHANGED <<store, nextId, clock, deleted>>

\* POST /<pk>/delete/, after get_object: the row is deleted, the answer is
\* the redirect.
DeletePostCommit(w) ==
    /\ pc[w] = "delete"
    /\ store' = Delete(store, obj[w])
    /\ resp' = Response("delete", "post", 302)
    /\ deleted' = deleted \cup {obj[w].id}
    /\ lastToggle' = NoToggle
    /\ pc' = [pc EXCEPT ![w] = "idle"]
    /\ obj' = [obj EXCEPT ![w] = NewInstance]
    /\ UNCHANGED <<nextId, clock>>

\* /<pk>/toggle/ with a verb the view has no handler for: 405.
ToggleNotAllowed(w, method, pk) ==
    /\ pc[w] = "idle"
    /\ Dispatch(ToggleHandlers, method) = "http_method_not_allowed"
    /\ resp' = Response("toggle", method, 405)
    /\ lastToggle' = NoToggle
    /\ UNCHANGED <<store, nextId, clock, pc, obj, deleted>>

\* OPTIONS /<pk>/toggle/ : View.options answers 200 with the Allow header.
ToggleOptions(w, method, pk) ==
    /\ pc[w] = "idle"
    /\ Dispatch(ToggleHandlers, method) = "options"
    /\ resp' = Response("toggle", method, 200)
    /\ lastToggle' = NoToggle
    /\ UNCHANGED <<store, nextId, clock, pc, obj, deleted>>

\* TodoToggleView.post, first store call: get_object_or_404.
TogglePostLoad(w, method, pk) ==
    /\ pc[w] = "idle"
    /\ Dispatch(ToggleHandlers, method) = "post"
    /\ IF GetObject(store, pk) = Http404
       THEN /\ resp' = Response("toggle", method, 404)
            /\ lastToggle' = NoToggle
            /\ UNCHANGED <<pc, obj>>
       ELSE /\ pc' = [pc EXCEPT ![w] = "toggle"]
            /\ obj' = [obj EXCEPT ![w] = GetObject(store, pk)]
            /\ UNCHANGED <<resp, lastToggle>>
    /\ UNCHANGED <<store, nextId, clock, deleted>>

\* TodoToggleView.post, after get_object_or_404: the flag of the instance in
\* memory is negated, the instance saved, the answer is the redirect.
TogglePostSave(w) ==
    /\ pc[w] = "toggle"
    /\ clock < MaxClock
    /\ store' = Save(store, ToggleCompleted(obj[w]), clock + 1)
    /\ clock' = clock + 1
    /\ resp' = Response("toggle", "post", 302)
    /\ lastToggle' =
           [pk |-> obj[w].id,
            was |-> IF Exists(store, obj[w].id)
                    THEN Row(store, obj[w].id).completed ELSE obj[w].completed,
            run |-> IF lastToggle.pk = obj[w].id THEN 2 ELSE 1]
    /\ pc' = [pc EXCEPT ![w] = "idle"]
    /\ obj' = [obj EXCEPT ![w] = NewInstance]
    /\ UNCHANGED <<nextId, deleted>>

\* One step of one request, served by worker w.
Serve(w) ==
    \/ HomeGet(w)
    \/ CreateGet(w)
    \/ \E body \in PostBodies : CreatePost(w, body)
    \/ \E pk \in Pks : EditGet(w, pk)
    \/ \E pk \in Pks : EditPostLoad(w, pk)
    \/ \E body \in PostBodies : EditPostSave(w, body)
    \/ \E pk \in Pks : DeleteGet(w, pk)
    \/ \E pk \in Pks : DeletePostLoad(w, pk)
    \/ DeletePostCommit(w)
    \/ \E method \in RequestMethods, pk \in Pks : ToggleNotAllowed(w, method, pk)
    \/ \E method \in RequestMethods, pk \in Pks : ToggleOptions(w, method, pk)
    \/ \E method \in RequestMethods, pk \in Pks : TogglePostLoad(w, method, pk)
    \/ TogglePostSave(w)

\* Requests served concurrently: the store calls of two requests interleave.
Next == \E w \in Workers : Serve(w)

Spec == Init /\ [][Next]_vars

\* Requests served one at a time, each to its response before the next
\* begins (the test client; a single-threaded server).
NextSerial == \E w \in SerialWorkers : Serve(w)

SpecSerial == Init /\ [][NextSerial]_vars

\* ---------------------------------------------------------------- claims

Keys(table) == {r.id : r \in table}

\* What a request that is refused leaves alone: the table, the key sequence,
\* the clock and every worker's request.
Untouched ==
    /\ store' = store
    /\ nextId' = nextId
    /\ clock' = clock
    /\ pc' = pc
    /\ obj' = obj

\* C1: with requests served one at a time, a successful POST to toggle stores
\* the negation of the item's completed flag, and when the request before it
\* was a successful POST to toggle on the same item, the flag is back at the
\* value it had before that first toggle.
C1_ToggleInvolution ==
    [][\A w \in Workers :
         TogglePostSave(w) =>
             /\ Exists(store, obj[w].id)
             /\ Exists(store', obj[w].id)
             /\ Row(store', obj[w].id).completed = ~Row(store, obj[w].id).completed
             /\ (lastToggle.pk = obj[w].id =>
                     Row(store', obj[w].id).completed = lastToggle.was)]_vars

\* Two toggles of one item in a row, from completed = TRUE back to TRUE.
C1_Witness ==
    /\ resp.route = "toggle"
    /\ resp.status = 302
    /\ lastToggle.run = 2
    /\ Exists(store, lastToggle.pk)
    /\ Row(store, lastToggle.pk).completed
    /\ ~lastToggle.was

\* C2: once a POST to delete has answered 302 for an id, no row has that id,
\* no listing shows it, and every edit, delete or toggle request on it is
\* answered 404.
C2_DeletedStaysGone ==
    [][/\ \A pk \in deleted' : ~Exists(store', pk)
       /\ \A pk \in deleted, w \in Workers :
              (\/ EditGet(w, pk)
               \/ EditPostLoad(w, pk)
               \/ DeleteGet(w, pk)
               \/ DeletePostLoad(w, pk)
               \/ TogglePostLoad(w, "post", pk)) => resp'.status = 404
       /\ \A w \in Workers :
              HomeGet(w) =>
                  \A i \in DOMAIN resp'.todos : resp'.todos[i] \notin deleted]_vars

\* C3: a POST to create whose title is missing or empty is answered 200 with
\* form errors, and the table is what it was.
C3_CreateWithoutTitleRejected ==
    [][\A w \in Workers, body \in PostBodies :
         (/\ "title" \notin body.present \/ body.title = <<>>
          /\ CreatePost(w, body)) =>
             /\ resp'.status = 200
             /\ resp'.errors
             /\ store' = store
             /\ nextId' = nextId]_vars

\* A create refused over a table that holds an item.
C3_Witness ==
    /\ resp.route = "create"
    /\ resp.method = "post"
    /\ resp.status = 200
    /\ resp.errors
    /\ store # {}

\* C4: after a successful create the new item is the first of the listing,
\* and the list view returns every stored item once, by created_at
\* descending (so nothing for an empty table).
C4_ListNewestFirst ==
    [][\A w \in Workers :
         /\ \A body \in PostBodies :
                (resp'.status = 302 /\ CreatePost(w, body)) =>
                    /\ ListAll(store') # <<>>
                    /\ Head(ListAll(store')).id = nextId
                    /\ ~Exists(store, nextId)
         /\ HomeGet(w) =>
                /\ Len(resp'.todos) = Cardinality(store)
                /\ {resp'.todos[i] : i \in DOMAIN resp'.todos} = Keys(store)
                /\ \A i, j \in DOMAIN resp'.todos :
                       i < j => Row(store, resp'.todos[i]).created_at
                                    >= Row(store, resp'.todos[j]).created_at
                /\ (store = {} => resp'.todos = <<>>)]_vars

\* A listing of two items, the later created first.
C4_Witness ==
    /\ resp.route = "home"
    /\ resp.todos = <<2, 1>>
    /\ Keys(store) = {1, 2}
    /\ Row(store, 2).created_at > Row(store, 1).created_at

\* C5: a toggle (POST), edit (GET or POST) or delete (GET or POST) request
\* for an id no row has is answered 404, ends there, and leaves the table
\* and the key sequence as they were.
C5_MissingIdIs404 ==
    [][\A w \in Workers, pk \in Pks :
         (/\ ~Exists(store, pk)
          /\ \/ TogglePostLoad(w, "post", pk)
             \/ EditGet(w, pk)
             \/ EditPostLoad(w, pk)
             \/ DeleteGet(w, pk)
             \/ DeletePostLoad(w, pk)) =>
             /\ resp'.status = 404
             /\ pc'[w] = "idle"
             /\ store' = store
             /\ nextId' = nextId]_vars

\* A toggle of a missing id answered 404 while the table holds an item.
C5_Witness ==
    /\ resp.route = "toggle"
    /\ resp.method = "post"
    /\ resp.status = 404
    /\ store # {}

\* C6, as stated: every request to toggle with a method other than POST is
\* answered 405 and changes nothing.
C6_NonPostIs405 ==
    [][\A w \in Workers, method \in RequestMethods \ {"post"}, pk \in Pks :
         (\/ ToggleNotAllowed(w, method, pk)
          \/ ToggleOptions(w, method, pk)
          \/ TogglePostLoad(w, method, pk)) =>
             resp'.status = 405 /\ Untouched]_vars

\* C6, amended: a request to toggle with a method other than POST and
\* OPTIONS is answered 405, one with OPTIONS is answered 200, and neither
\* changes the table or any request in progress.
C6_NonPostIs405ExceptOptions ==
    [][\A w \in Workers, method \in RequestMethods \ {"post"}, pk \in Pks :
         (\/ ToggleNotAllowed(w, method, pk)
          \/ ToggleOptions(w, method, pk)
          \/ TogglePostLoad(w, method, pk)) =>
             /\ resp'.status = IF method = "options" THEN 200 ELSE 405
             /\ Untouched]_vars

\* A GET to toggle refused while the table holds an item.
C6_Witness ==
    /\ resp.route = "toggle"
    /\ resp.method = "get"
    /\ resp.status = 405
    /\ store # {}

\* C7: a successful POST to create adds exactly one row and changes no
\* other; the new row's completed flag is false whatever the body carries,
\* and its description is the empty text when the body carries none.
C7_CreateDefaults ==
    [][\A w \in Workers, body \in PostBodies :
         (resp'.status = 302 /\ CreatePost(w, body)) =>
             /\ store \subseteq store'
             /\ Cardinality(store' \ store) = 1
             /\ \A r \in store' \ store :
                    /\ r.completed = FALSE
                    /\ ("description" \notin body.present => r.description = <<>>)
                    /\ r.description # Null]_vars

\* An item just created from a body without description.
C7_Witness ==
    /\ resp.route = "create"
    /\ resp.status = 302
    /\ Exists(store, nextId - 1)
    /\ Row(store, nextId - 1).description = <<>>
    /\ Row(store, nextId - 1).created_at = clock

\* The completed flag a body submits.
Submitted(body) == "completed" \in body.present /\ body.completed = "True"

\* C8, as stated: a POST to edit with a non-empty title stores the submitted
\* title, description and completed and is answered 302; one with an empty
\* title is answered 200 with errors and changes no row.
C8_EditNonEmptyTitle ==
    [][\A w \in Workers, body \in PostBodies :
         EditPostSave(w, body) =>
             IF "title" \in body.present /\ body.title # <<>>
             THEN /\ resp'.status = 302
                  /\ Exists(store', obj[w].id)
                  /\ Row(store', obj[w].id).title = body.title
                  /\ Row(store', obj[w].id).description = body.description
                  /\ Row(store', obj[w].id).completed = Submitted(body)
             ELSE /\ resp'.status = 200
                  /\ resp'.errors
                  /\ store' = store]_vars

\* C8, amended: a POST to edit whose title is not empty once the whitespace
\* around it is stripped stores the stripped title, the stripped description
\* and the submitted completed flag and is answered 302; one whose title is
\* missing, empty or only whitespace is answered 200 with errors and changes
\* no row.
C8_EditStoresCleanedValues ==
    [][\A w \in Workers, body \in PostBodies :
         EditPostSave(w, body) =>
             IF "title" \in body.present /\ Strip(body.title) # <<>>
             THEN /\ resp'.status = 302
                  /\ Exists(store', obj[w].id)
                  /\ Row(store', obj[w].id).title = Strip(body.title)
                  /\ Row(store', obj[w].id).description =
                         (IF "description" \in body.present
                          THEN Strip(body.description) ELSE <<>>)
                  /\ Row(store', obj[w].id).completed = Submitted(body)
                  /\ Keys(store') = Keys(store) \cup {obj[w].id}
             ELSE /\ resp'.status = 200
                  /\ resp'.errors
                  /\ store' = store]_vars

\* The fixture edited to another title, a description and completed.
C8_Witness ==
    /\ resp.route = "edit"
    /\ resp.method = "post"
    /\ resp.status = 302
    /\ Exists(store, 1)
    /\ Row(store, 1).title = <<"b">>
    /\ Row(store, 1).description = <<"d">>
    /\ Row(store, 1).completed

\* C9: a successful toggle adds and removes no row, changes no other row,
\* and leaves the id, title, description and created_at its row has in the
\* table when it saves.
C9_ToggleChangesOnlyCompleted ==
    [][\A w \in Workers :
         TogglePostSave(w) =>
             /\ Keys(store') = Keys(store)
             /\ \A r \in store : r.id # obj[w].id => r \in store'
             /\ Exists(store, obj[w].id)
             /\ Row(store', obj[w].id).title = Row(store, obj[w].id).title
             /\ Row(store', obj[w].id).description =
                    Row(store, obj[w].id).description
             /\ Row(store', obj[w].id).created_at =
                    Row(store, obj[w].id).created_at]_vars

\* C10: when a toggle saves after another toggle of the same item whose write
\* it did not see (it read the flag before that write, and no other request
\* came between), the flag is back at the value both read.
C10_ConcurrentTogglesSerialized ==
    [][\A w \in Workers :
         (/\ TogglePostSave(w)
          /\ lastToggle.pk = obj[w].id
          /\ Exists(store, obj[w].id)
          /\ Row(store, obj[w].id).completed = ~lastToggle.was
          /\ obj[w].completed = lastToggle.was) =>
             /\ Exists(store', obj[w].id)
             /\ Row(store', obj[w].id).completed = lastToggle.was]_vars

=============================================================================
